---- MODULE Spec2Model ----
(***************************************************************************)
(* State-machine model of luomu-libpcap's safe wrapper (src/lib.rs):       *)
(* the capture-handle lifecycle (PcapT, Pcap, PcapBuilder), compiled       *)
(* filters (PcapFilter), the packet iterator (PcapIter, Packet) and the    *)
(* device list (PcapIfT, InterfaceIter).                                   *)
(*                                                                         *)
(* The native library is the collaborator: every answer it gives (success, *)
(* failure, timeout, packet bytes) is a nondeterministic input.            *)
(* Rust ownership is modelled by what the type of a value permits: a value *)
(* moved into a call is gone if the call does not return it, and a value   *)
(* borrowed for 'p cannot be dropped while a holder of 'p is alive.        *)
(***************************************************************************)
EXTENDS Integers, Sequences, FiniteSets, TLC

\* ---------------------------------------------------------------- bounds
MaxHandles == 1    \* native capture resources ever created
MaxIters   == 1    \* PcapIter values ever created
MaxPolls   == 2    \* pcap_next_ex calls per native resource
MaxHeld    == 1    \* Borrowed packets the consumer holds at one time
MaxFilters == 1    \* filter programs ever compiled
MaxNodes   == 2    \* nodes of the native device list
MaxIfIters == 1    \* InterfaceIter values ever created
MaxAddrs   == 4    \* nodes of a native address list
MaxLen     == 3    \* bytes of a packet

Handles   == 1..MaxHandles
IterIds   == 1..MaxIters
FilterIds == 1..MaxFilters
Payloads  == {1, 2}    \* the contents a packet can have
Names     == {"lo", "eth0"}           \* the names a device can have
Ips       == {"127.0.0.1"}            \* the IP addresses a device can have
NoIp      == "none"
IpOf(n)   == IF n = "lo" THEN "127.0.0.1" ELSE NoIp
AskNames  == Names \cup {"nonexistent0"}  \* the names a caller searches for
IfIterIds == 1..MaxIfIters
\* The kinds a native address record can have: the three an Address holds and
\* one try_address_from does not know.
AddrKinds == {"Ipv4", "Ipv6", "Mac", "Unknown"}
Bytes     == {0, 127, 255}            \* the values a byte of a packet can have
\* The values an Ipv4Addr, an Ipv6Addr and a MacAddr can have.
Ipv4Addrs == {"127.0.0.1", "10.0.0.1"}
Ipv6Addrs == {"::1", "fe80::1"}
MacAddrs  == {"02:00:00:00:00:01", "ff:ff:ff:ff:ff:ff"}

VARIABLES
    hstate,         \* per native resource: which Rust value owns its PcapT
    origin,         \* per native resource: the constructor that made it
    activated,      \* per native resource: a pcap_activate has succeeded
    closeCalls,     \* per native resource: number of pcap_close calls
    cfgFailed,      \* per native resource: a setter/activate returned Err
    lastCall,       \* the most recent call into the native library
    polls,          \* per native resource: number of pcap_next_ex calls
    bufgen,         \* per native resource: generation of the packet buffer
    buf,            \* per native resource: bytes now in the packet buffer
    iters,          \* the PcapIter values
    held,           \* the Packet values the consumer holds
    fstate,         \* per filter program: the PcapFilter owning it
    ffrees,         \* per filter program: number of pcap_freecode calls
    freecodeCalls,  \* number of pcap_freecode calls, all programs
    finst,          \* per filter program: outcome of its install
    installed,      \* per native resource: the program now installed
    compileErr,     \* per native resource: a pcap_compile on it has failed
    ifstate,        \* the PcapIfT owning the native device list
    devs,           \* the native device list, head first
    freealldevsCalls, \* number of pcap_freealldevs calls on the list
    ifiters,        \* the InterfaceIter values
    found,          \* the last get_interfaces/find_interface_* and its result
    uaf,            \* a node has been read after the list was released
    addrs,          \* a native address list, head first
    aiter,          \* the AddressIter over it
    pkt,            \* a Packet the caller has made
    copy,           \* what to_owned() of it returned
    addr,           \* an Address the caller has made
    got             \* the last extraction from an Address and its result

capVars == <<hstate, origin, activated, closeCalls, cfgFailed, lastCall,
             polls, bufgen, buf, iters, held,
             fstate, ffrees, freecodeCalls, finst, installed, compileErr>>

lifeVars == <<hstate, origin, activated, closeCalls, cfgFailed>>
pollVars == <<polls, bufgen, buf, iters, held>>
filtVars == <<fstate, ffrees, freecodeCalls, finst, installed, compileErr>>

devVars == <<ifstate, devs, freealldevsCalls, ifiters, found, uaf>>

\* Values that hang on no handle: an address list and its iterator, a packet
\* and its copy, an address and what was extracted from it.
addrVars == <<addrs, aiter>>
pktVars == <<pkt, copy>>
tagVars == <<addr, got>>
valVars == <<addrVars, pktVars, tagVars>>

ifVars == <<devVars, valVars>>

vars == <<capVars, ifVars>>

\* ------------------------------------------------------------- helpers
\* A PcapIter: the handle it borrows, where its next() stands, the polls made
\* by the current (or last) next() and how many of them were answered with a
\* timeout, and what it has been delivered and has yielded so far.
NoIter == [h |-> 0, pc |-> "unborn", npolls |-> 0, ntimeouts |-> 0,
           yielded |-> <<>>, delivered |-> <<>>,
           ended |-> FALSE, resumed |-> FALSE]

NoCall == [op |-> "-", h |-> 0, res |-> "-"]

\* The record of one call into the native library on resource h: the native
\* function and the answer.
Call(op, h, res) == [op |-> op, h |-> h, res |-> res]

Res(ok) == IF ok THEN "Ok" ELSE "Err"

\* PcapT holds a raw pointer, so it is neither Send nor Sync: one thread owns
\* a handle and everything borrowed from it, and next() is a blocking call.
NoCallInFlight == \A i \in IterIds : iters[i].pc # "polling"

LiveIter(i) == iters[i].pc \in {"idle", "polling"}

\* Holders of the lifetime 'p of a borrow of resource h's PcapT.
Borrowers(h) ==
    (\E i \in IterIds : LiveIter(i) /\ iters[i].h = h)
    \/ (\E p \in held : p.h = h)

\* An InterfaceIter: `next` is None, Some(null) or Some(node k); `visited`
\* are the nodes it has dereferenced and `out` the interfaces it has yielded.
None == -1
Null == 0
NoIfIter == [pc |-> "unborn", next |-> None, visited |-> <<>>, out |-> <<>>]

\* The last lookup: `ret` is the set get_interfaces returned, or the Option
\* a find_interface_* returned, {} for None and {x} for Some(x).
NoFind == [by |-> "-", arg |-> "-", ret |-> {}]

\* No Packet, no Address and no extraction yet.
NoPacket == [kind |-> "-", data |-> <<>>]
NoAddress == [variant |-> "-", val |-> "-"]
NoGot == [op |-> "-", of |-> NoAddress, some |-> {}, err |-> {}]

\* An AddressIter: `next` as in InterfaceIter, the nodes it has dereferenced,
\* the InterfaceAddress values it has yielded and whether a next() has
\* returned None.
NoAddrIter == [pc |-> "unborn", next |-> None, visited |-> <<>>, out |-> <<>>,
               ended |-> FALSE]

Least(S) == CHOOSE x \in S : \A y \in S : x <= y

Unopened == {h \in Handles : hstate[h] = "unopened"}
Unborn   == {i \in IterIds : iters[i].pc = "unborn"}
Unused   == {f \in FilterIds : fstate[f] = "unused"}

\* -------------------------------------------------------------- Init
Init ==
    /\ hstate = [h \in Handles |-> "unopened"]
    /\ origin = [h \in Handles |-> "none"]
    /\ activated = [h \in Handles |-> FALSE]
    /\ closeCalls = [h \in Handles |-> 0]
    /\ cfgFailed = [h \in Handles |-> "no"]
    /\ lastCall = NoCall
    /\ polls = [h \in Handles |-> 0]
    /\ bufgen = [h \in Handles |-> 0]
    /\ buf = [h \in Handles |-> 0]
    /\ iters = [i \in IterIds |-> NoIter]
    /\ held = {}
    /\ fstate = [f \in FilterIds |-> "unused"]
    /\ ffrees = [f \in FilterIds |-> 0]
    /\ freecodeCalls = 0
    /\ finst = [f \in FilterIds |-> "never"]
    /\ installed = [h \in Handles |-> 0]
    /\ compileErr = [h \in Handles |-> FALSE]
    /\ ifstate = "none"
    /\ devs = <<>>
    /\ freealldevsCalls = 0
    /\ ifiters = [j \in IfIterIds |-> NoIfIter]
    /\ found = NoFind
    /\ uaf = FALSE
    /\ addrs = <<>>
    /\ aiter = NoAddrIter
    /\ pkt = NoPacket
    /\ copy = NoPacket
    /\ addr = NoAddress
    /\ got = NoGot

\* ------------------------------------------------- handle lifecycle
\* impl Drop for PcapT: one pcap_close on the pointer.
DropPcapT(h) ==
    closeCalls' = [closeCalls EXCEPT ![h] = @ + 1]

\* pcap_close releases the resource and its packet buffer with it.
BufferGone(h) ==
    /\ bufgen' = [bufgen EXCEPT ![h] = 0]
    /\ buf' = [buf EXCEPT ![h] = 0]

\* The caller holds one handle at a time: handles share nothing (a PcapT owns
\* its pointer and lib.rs has no static), so a second open handle would only
\* repeat the first beside it.
NoneOpen == \A h \in Handles : hstate[h] \notin {"builder", "pcap"}

\* pcap_create: the collaborator hands out a new resource or fails.
pcap_create(h, kind, ok) ==
    /\ NoCallInFlight
    /\ NoneOpen
    /\ Unopened # {}
    /\ h = Least(Unopened)
    /\ lastCall' = Call("pcap_create", h, Res(ok))
    /\ IF ok
       THEN /\ hstate' = [hstate EXCEPT ![h] = kind]
            /\ origin' = [origin EXCEPT ![h] = kind]
       ELSE UNCHANGED <<hstate, origin>>
    /\ UNCHANGED <<activated, closeCalls, cfgFailed, pollVars, filtVars, ifVars>>

Pcap_new == \E h \in Handles, ok \in BOOLEAN : pcap_create(h, "pcap", ok)

Pcap_builder == \E h \in Handles, ok \in BOOLEAN : pcap_create(h, "builder", ok)

\* A PcapBuilder setter: takes self by value; `?` returns the error and drops
\* self, Ok(self) hands the builder back.
BuilderSet(h, op, ok) ==
    /\ NoCallInFlight
    /\ hstate[h] = "builder"
    /\ lastCall' = Call(op, h, Res(ok))
    /\ IF ok
       THEN UNCHANGED <<hstate, closeCalls, cfgFailed>>
       ELSE /\ hstate' = [hstate EXCEPT ![h] = "closed"]
            /\ cfgFailed' = [cfgFailed EXCEPT ![h] = "builder"]
            /\ DropPcapT(h)
    /\ UNCHANGED <<origin, activated, pollVars, filtVars, ifVars>>

set_buffer_size ==
    \E h \in Handles, ok \in BOOLEAN : BuilderSet(h, "pcap_set_buffer_size", ok)

set_promiscuous ==
    \E h \in Handles, ok \in BOOLEAN : BuilderSet(h, "pcap_set_promisc", ok)

set_immediate ==
    \E h \in Handles, ok \in BOOLEAN : BuilderSet(h, "pcap_set_immediate_mode", ok)

set_snaplen ==
    \E h \in Handles, ok \in BOOLEAN : BuilderSet(h, "pcap_set_snaplen", ok)

\* The collaborator's answers to pcap_activate: a resource that is already
\* activated refuses a second activation.
ActivateAnswers(h) == IF activated[h] THEN {FALSE} ELSE BOOLEAN

\* PcapBuilder::activate as it would be if the Pcap were built from a copy of
\* the pointer: the builder is dropped on success too.
BuilderActivate_CloseOnOk(h, ok) ==
    /\ NoCallInFlight
    /\ hstate[h] = "builder"
    /\ lastCall' = Call("pcap_activate", h, Res(ok))
    /\ hstate' = [hstate EXCEPT ![h] = IF ok THEN "pcap" ELSE "closed"]
    /\ activated' = [activated EXCEPT ![h] = ok]
    /\ cfgFailed' = [cfgFailed EXCEPT ![h] = IF ok THEN @ ELSE "builder"]
    /\ DropPcapT(h)
    /\ UNCHANGED <<origin, pollVars, filtVars, ifVars>>

\* PcapBuilder::activate as it would be borrowing the builder: after a
\* successful activation the builder is still with the caller.
BuilderActivate_KeepsBuilder(h, ok) ==
    /\ NoCallInFlight
    /\ hstate[h] = "builder"
    /\ lastCall' = Call("pcap_activate", h, Res(ok))
    /\ IF ok
       THEN /\ activated' = [activated EXCEPT ![h] = TRUE]
            /\ UNCHANGED <<hstate, closeCalls, cfgFailed>>
       ELSE /\ hstate' = [hstate EXCEPT ![h] = "closed"]
            /\ cfgFailed' = [cfgFailed EXCEPT ![h] = "builder"]
            /\ DropPcapT(h)
            /\ UNCHANGED activated
    /\ UNCHANGED <<origin, pollVars, filtVars, ifVars>>

\* PcapBuilder::activate(self): on success the PcapT moves into a Pcap, on
\* failure `?` returns and self is dropped.
BuilderActivate(h, ok) ==
    /\ NoCallInFlight
    /\ hstate[h] = "builder"
    /\ lastCall' = Call("pcap_activate", h, Res(ok))
    /\ IF ok
       THEN /\ hstate' = [hstate EXCEPT ![h] = "pcap"]
            /\ activated' = [activated EXCEPT ![h] = TRUE]
            /\ UNCHANGED <<closeCalls, cfgFailed>>
       ELSE /\ hstate' = [hstate EXCEPT ![h] = "closed"]
            /\ cfgFailed' = [cfgFailed EXCEPT ![h] = "builder"]
            /\ DropPcapT(h)
            /\ UNCHANGED activated
    /\ UNCHANGED <<origin, pollVars, filtVars, ifVars>>

PcapBuilder_activate ==
    \E h \in Handles : \E ok \in ActivateAnswers(h) : BuilderActivate(h, ok)

\* Pcap::activate(&self): borrows the handle, which stays with the caller
\* whatever the answer.
PcapActivate(h, ok) ==
    /\ NoCallInFlight
    /\ hstate[h] = "pcap"
    /\ lastCall' = Call("pcap_activate", h, Res(ok))
    /\ IF ok
       THEN /\ activated' = [activated EXCEPT ![h] = TRUE]
            /\ UNCHANGED cfgFailed
       ELSE /\ cfgFailed' = [cfgFailed EXCEPT ![h] = "pcap"]
            /\ UNCHANGED activated
    /\ UNCHANGED <<hstate, origin, closeCalls, pollVars, filtVars, ifVars>>

Pcap_activate ==
    \E h \in Handles : \E ok \in ActivateAnswers(h) : PcapActivate(h, ok)

\* Pcap::inject(&self, buf) and Pcap::stats(&self): one native call each.
PcapCall(h, op, ok) ==
    /\ NoCallInFlight
    /\ hstate[h] = "pcap"
    /\ lastCall' = Call(op, h, Res(ok))
    /\ UNCHANGED <<lifeVars, pollVars, filtVars, ifVars>>

Pcap_inject == \E h \in Handles, ok \in BOOLEAN : PcapCall(h, "pcap_inject", ok)

Pcap_stats == \E h \in Handles, ok \in BOOLEAN : PcapCall(h, "pcap_stats", ok)

\* A PcapBuilder or a Pcap goes out of scope. A Pcap is borrowed for 'p by
\* every PcapIter<'p> and Packet<'p> made from it, so it cannot go while one
\* of them is alive.
\* The drop check as it would be if PcapIter and Packet held a raw pointer
\* instead of a borrow.
CanDropPcap_NoBorrow(h) == TRUE

CanDropPcap(h) == ~Borrowers(h)

DropOwner(h) ==
    /\ NoCallInFlight
    /\ \/ hstate[h] = "builder"
       \/ hstate[h] = "pcap" /\ CanDropPcap(h)
    /\ hstate' = [hstate EXCEPT ![h] = "closed"]
    /\ DropPcapT(h)
    /\ BufferGone(h)
    /\ lastCall' = Call("pcap_close", h, "Ok")
    /\ UNCHANGED <<origin, activated, cfgFailed, polls, iters, held, filtVars,
                   ifVars>>

Drop_Pcap == \E h \in Handles : hstate[h] = "pcap" /\ DropOwner(h)

Drop_PcapBuilder == \E h \in Handles : hstate[h] = "builder" /\ DropOwner(h)

\* ------------------------------------------------------ compiled filters
\* impl Drop for PcapFilter: one pcap_freecode on the program.
DropPcapFilter(f) ==
    /\ ffrees' = [ffrees EXCEPT ![f] = @ + 1]
    /\ freecodeCalls' = freecodeCalls + 1

\* pcap_setfilter(&pcap_t, &mut bpf_program): the collaborator installs the
\* program, replacing the active one, or fails and leaves it.
pcap_setfilter(h, f, ok) ==
    /\ finst' = [finst EXCEPT ![f] = IF ok THEN "ok" ELSE "failed"]
    /\ installed' = [installed EXCEPT ![h] = IF ok THEN f ELSE @]

\* Pcap::set_filter as it would be if the PcapFilter were built before the
\* result of pcap_compile is looked at: its drop runs on the error path too.
SetFilter_FreeOnCompileErr(h, cok, iok) ==
    /\ NoCallInFlight
    /\ hstate[h] = "pcap"
    /\ IF cok
       THEN /\ Unused # {}
            /\ LET f == Least(Unused) IN
                 /\ pcap_setfilter(h, f, iok)
                 /\ fstate' = [fstate EXCEPT ![f] = "dropped"]
                 /\ DropPcapFilter(f)
            /\ lastCall' = Call("pcap_setfilter", h, Res(iok))
            /\ UNCHANGED compileErr
       ELSE /\ lastCall' = Call("pcap_compile", h, "Err")
            /\ compileErr' = [compileErr EXCEPT ![h] = TRUE]
            /\ freecodeCalls' = freecodeCalls + 1
            /\ UNCHANGED <<fstate, ffrees, finst, installed>>
    /\ UNCHANGED <<lifeVars, pollVars, ifVars>>

\* Pcap::set_filter as it would be without the `?`: the program compile left
\* behind is installed all the same, and takes the place of the active one.
SetFilter_InstallOnCompileErr(h, cok, iok) ==
    /\ NoCallInFlight
    /\ hstate[h] = "pcap"
    /\ IF cok
       THEN /\ Unused # {}
            /\ LET f == Least(Unused) IN
                 /\ pcap_setfilter(h, f, iok)
                 /\ fstate' = [fstate EXCEPT ![f] = "dropped"]
                 /\ DropPcapFilter(f)
            /\ lastCall' = Call("pcap_setfilter", h, Res(iok))
            /\ UNCHANGED compileErr
       ELSE /\ lastCall' = Call("pcap_setfilter", h, Res(iok))
            /\ compileErr' = [compileErr EXCEPT ![h] = TRUE]
            /\ installed' = [installed EXCEPT ![h] = IF iok THEN 0 ELSE @]
            /\ UNCHANGED <<fstate, ffrees, freecodeCalls, finst>>
    /\ UNCHANGED <<lifeVars, pollVars, ifVars>>

\* Pcap::set_filter(&self, filter): compile, `?` on failure; install the
\* program; the local PcapFilter is dropped when the function returns.
SetFilter(h, cok, iok) ==
    /\ NoCallInFlight
    /\ hstate[h] = "pcap"
    /\ IF cok
       THEN /\ Unused # {}
            /\ LET f == Least(Unused) IN
                 /\ pcap_setfilter(h, f, iok)
                 /\ fstate' = [fstate EXCEPT ![f] = "dropped"]
                 /\ DropPcapFilter(f)
            /\ lastCall' = Call("pcap_setfilter", h, Res(iok))
            /\ UNCHANGED compileErr
       ELSE /\ lastCall' = Call("pcap_compile", h, "Err")
            /\ compileErr' = [compileErr EXCEPT ![h] = TRUE]
            /\ UNCHANGED <<fstate, ffrees, freecodeCalls, finst, installed>>
    /\ UNCHANGED <<lifeVars, pollVars, ifVars>>

Pcap_set_filter == \E h \in Handles, cok, iok \in BOOLEAN : SetFilter(h, cok, iok)

\* PcapFilter::compile(&PcapT, filter_str): the program goes to the caller.
\* A &PcapT is had from a Pcap only (Deref); a PcapBuilder gives none.
Compile(h, cok) ==
    /\ NoCallInFlight
    /\ hstate[h] = "pcap"
    /\ lastCall' = Call("pcap_compile", h, Res(cok))
    /\ IF cok
       THEN /\ Unused # {}
            /\ fstate' = [fstate EXCEPT ![Least(Unused)] = "live"]
            /\ UNCHANGED compileErr
       ELSE /\ compileErr' = [compileErr EXCEPT ![h] = TRUE]
            /\ UNCHANGED fstate
    /\ UNCHANGED <<lifeVars, pollVars, ffrees, freecodeCalls, finst, installed,
                   ifVars>>

PcapFilter_compile == \E h \in Handles, cok \in BOOLEAN : Compile(h, cok)

\* functions::pcap_setfilter on a PcapFilter the caller holds.
InstallHeld(h, f, ok) ==
    /\ NoCallInFlight
    /\ hstate[h] = "pcap"
    /\ fstate[f] = "live"
    /\ pcap_setfilter(h, f, ok)
    /\ lastCall' = Call("pcap_setfilter", h, Res(ok))
    /\ UNCHANGED <<lifeVars, pollVars, fstate, ffrees, freecodeCalls,
                   compileErr, ifVars>>

Install_PcapFilter ==
    \E h \in Handles, f \in FilterIds, ok \in BOOLEAN : InstallHeld(h, f, ok)

\* A PcapFilter the caller holds goes out of scope. It has no lifetime
\* parameter, so it may go before or after the Pcap that compiled it.
DropHeldFilter(f) ==
    /\ NoCallInFlight
    /\ fstate[f] = "live"
    /\ fstate' = [fstate EXCEPT ![f] = "dropped"]
    /\ DropPcapFilter(f)
    /\ UNCHANGED <<lifeVars, lastCall, pollVars, finst, installed, compileErr,
                   ifVars>>

Drop_PcapFilter == \E f \in FilterIds : DropHeldFilter(f)

\* ------------------------------------------------- packet iterator
\* Pcap::capture(&self) / PcapIter::new: a PcapIter<'p> borrowing the PcapT.
Capture(h, i) ==
    /\ NoCallInFlight
    /\ hstate[h] = "pcap"
    /\ Unborn # {}
    /\ i = Least(Unborn)
    /\ iters' = [iters EXCEPT ![i] = [NoIter EXCEPT !.h = h, !.pc = "idle"]]
    /\ UNCHANGED <<lifeVars, lastCall, polls, bufgen, buf, held, filtVars, ifVars>>

Pcap_capture == \E h \in Handles, i \in IterIds : Capture(h, i)

\* The consumer calls PcapIter::next(&mut self): the loop is entered.
NextCall(i) ==
    /\ NoCallInFlight
    /\ iters[i].pc = "idle"
    /\ polls[iters[i].h] < MaxPolls
    /\ iters' = [iters EXCEPT ![i].pc = "polling", ![i].npolls = 0,
                              ![i].ntimeouts = 0]
    /\ UNCHANGED <<lifeVars, lastCall, polls, bufgen, buf, held, filtVars, ifVars>>

PcapIter_next == \E i \in IterIds : NextCall(i)

\* The collaborator's answers to pcap_next_ex.
PollAnswers ==
    {[kind |-> "Timeout", bytes |-> 0], [kind |-> "Err", bytes |-> 0]}
    \cup {[kind |-> "Ok", bytes |-> b] : b \in Payloads}

\* Packet::from_slice on the library's buffer: a Borrowed view, which holds
\* no bytes of its own.
Borrowed(h, gen) == [kind |-> "Borrowed", h |-> h, gen |-> gen, bytes |-> 0]

\* The consumer keeps the packet it was handed if it has room for it.
BorrowedHeld == {p \in held : p.kind = "Borrowed"}

Receive(p) == IF Cardinality(BorrowedHeld) < MaxHeld THEN held \cup {p} ELSE held

\* The match as it would be with Timeout left to the catch-all arm: a
\* timeout ends the sequence.
NextMatch_TimeoutEnds(i, ans, gen, its) ==
    LET it == iters[i] IN
    IF ans.kind = "Ok"
    THEN /\ iters' = [its EXCEPT ![i].pc = "idle",
                        ![i].yielded = Append(@, ans.bytes),
                        ![i].resumed = it.resumed \/ it.ended]
         /\ held' = Receive(Borrowed(it.h, gen))
    ELSE /\ iters' = [its EXCEPT ![i].pc = "idle", ![i].ended = TRUE]
         /\ UNCHANGED held

\* The match as it would be retrying on every error.
NextMatch_RetriesAll(i, ans, gen, its) ==
    LET it == iters[i] IN
    IF ans.kind = "Ok"
    THEN /\ iters' = [its EXCEPT ![i].pc = "idle",
                        ![i].yielded = Append(@, ans.bytes),
                        ![i].resumed = it.resumed \/ it.ended]
         /\ held' = Receive(Borrowed(it.h, gen))
    ELSE /\ iters' = its
         /\ UNCHANGED held

\* The match as it would be if a packet that follows a timeout were taken
\* for the expired buffer and polled over.
NextMatch_SkipsAfterTimeout(i, ans, gen, its) ==
    LET it == iters[i] IN
    CASE ans.kind = "Ok" /\ it.npolls = 0 ->
           /\ iters' = [its EXCEPT ![i].pc = "idle",
                          ![i].yielded = Append(@, ans.bytes),
                          ![i].resumed = it.resumed \/ it.ended]
           /\ held' = Receive(Borrowed(it.h, gen))
      [] ans.kind \in {"Ok", "Timeout"} ->
           /\ iters' = its
           /\ UNCHANGED held
      [] OTHER ->
           /\ iters' = [its EXCEPT ![i].pc = "idle", ![i].ended = TRUE]
           /\ UNCHANGED held

\* The match as it would be giving a failed first poll one more try.
NextMatch_RetriesFirstErr(i, ans, gen, its) ==
    LET it == iters[i] IN
    CASE ans.kind = "Ok" ->
           /\ iters' = [its EXCEPT ![i].pc = "idle",
                          ![i].yielded = Append(@, ans.bytes),
                          ![i].resumed = it.resumed \/ it.ended]
           /\ held' = Receive(Borrowed(it.h, gen))
      [] ans.kind = "Timeout" \/ it.npolls = 0 ->
           /\ iters' = its
           /\ UNCHANGED held
      [] OTHER ->
           /\ iters' = [its EXCEPT ![i].pc = "idle", ![i].ended = TRUE]
           /\ UNCHANGED held

\* The match in PcapIter::next's loop on the result of one pcap_next_ex:
\* Ok(p) => return Some(p); Err(Timeout) => continue; Err(_) => return None.
\* `its` is the iterators with the poll just made already counted.
NextMatch(i, ans, gen, its) ==
    LET it == iters[i] IN
    CASE ans.kind = "Ok" ->
           /\ iters' = [its EXCEPT ![i].pc = "idle",
                          ![i].yielded = Append(@, ans.bytes),
                          ![i].resumed = it.resumed \/ it.ended]
           /\ held' = Receive(Borrowed(it.h, gen))
      [] ans.kind = "Timeout" ->
           /\ iters' = its
           /\ UNCHANGED held
      [] OTHER ->
           /\ iters' = [its EXCEPT ![i].pc = "idle", ![i].ended = TRUE]
           /\ UNCHANGED held

\* One turn of the loop: pcap_next_ex(&self.pcap_t), then the match. A packet
\* answer overwrites the library's buffer and is delivered to the caller.
\* The polls counted end at MaxPolls: a timeout is counted while an answer
\* can be counted after it, and the timeouts beyond are steps that change
\* nothing.
Poll(i, ans) ==
    LET h == iters[i].h
        gen == IF ans.kind = "Ok" THEN bufgen[h] + 1 ELSE bufgen[h]
        its == [iters EXCEPT ![i].npolls = @ + 1,
                             ![i].ntimeouts = IF ans.kind = "Timeout"
                                              THEN @ + 1 ELSE @,
                             ![i].delivered = IF ans.kind = "Ok"
                                              THEN Append(@, ans.bytes) ELSE @]
    IN
    /\ iters[i].pc = "polling"
    /\ polls[h] < MaxPolls
    /\ ans.kind = "Timeout" => polls[h] + 1 < MaxPolls
    /\ polls' = [polls EXCEPT ![h] = @ + 1]
    /\ bufgen' = [bufgen EXCEPT ![h] = gen]
    /\ buf' = [buf EXCEPT ![h] = IF ans.kind = "Ok" THEN ans.bytes ELSE @]
    /\ lastCall' = Call("pcap_next_ex", h, ans.kind)
    /\ NextMatch(i, ans, gen, its)
    /\ UNCHANGED <<lifeVars, filtVars, ifVars>>

pcap_next_ex == \E i \in IterIds, ans \in PollAnswers : Poll(i, ans)

\* A PcapIter goes out of scope.
DropIter(i) ==
    /\ iters[i].pc = "idle"
    /\ NoCallInFlight
    /\ iters' = [iters EXCEPT ![i] = [NoIter EXCEPT !.pc = "dropped"]]
    /\ UNCHANGED <<lifeVars, lastCall, polls, bufgen, buf, held, filtVars, ifVars>>

Drop_PcapIter == \E i \in IterIds : DropIter(i)

\* Packet::to_vec on a held packet: a Borrowed view reads the library's
\* buffer; if that buffer has been overwritten since, what is read is
\* whatever the library left there.
ToVec(p) ==
    IF p.kind = "Owned" THEN {p.bytes}
    ELSE IF p.gen = bufgen[p.h] THEN {buf[p.h]} ELSE Payloads

\* impl ToOwned for Packet: Packet::Owned(self.to_vec()), self is kept.
ToOwned(p, b) ==
    /\ NoCallInFlight
    /\ p \in held
    /\ b \in ToVec(p)
    /\ held' = held \cup {[kind |-> "Owned", h |-> p.h, gen |-> 0, bytes |-> b]}
    /\ UNCHANGED <<lifeVars, lastCall, polls, bufgen, buf, iters, filtVars, ifVars>>

Packet_to_owned == \E p \in held, b \in Payloads : ToOwned(p, b)

\* A held Packet goes out of scope.
DropPacket(p) ==
    /\ NoCallInFlight
    /\ p \in held
    /\ held' = held \ {p}
    /\ UNCHANGED <<lifeVars, lastCall, polls, bufgen, buf, iters, filtVars, ifVars>>

Drop_Packet == \E p \in held : DropPacket(p)

\* ------------------------------------------------------- device list
\* The native lists pcap_findalldevs can hand out: each node has a name, an
\* IP address or none (the loopback device has one), and whether
\* try_interface_from converts it.
Node == {[name |-> n, ip |-> IpOf(n), conv |-> c] : n \in Names, c \in BOOLEAN}

RECURSIVE ListsOf(_)
ListsOf(n) ==
    IF n = 0 THEN {<<>>}
    ELSE LET shorter == ListsOf(n - 1) IN
         shorter \cup {Append(l, d) : l \in {x \in shorter : Len(x) = n - 1},
                                      d \in Node}

NativeLists == ListsOf(MaxNodes)

\* The head pointer of the list and a node's next pointer.
HeadOf(l) == IF l = <<>> THEN Null ELSE 1

NodeNext(l, k) == IF k < Len(l) THEN k + 1 ELSE Null

\* try_interface_from(node): the owned Interface copied out of a node.
Interface(d) == [name |-> d.name, ip |-> d.ip]

\* PcapIfT::new / pcap_findalldevs: one query for the whole list.
PcapIfT_new ==
    \E l \in NativeLists, ok \in BOOLEAN :
        /\ ifstate = "none"
        /\ IF ok
           THEN ifstate' = "live" /\ devs' = l
           ELSE UNCHANGED <<ifstate, devs>>
        /\ UNCHANGED <<capVars, valVars, freealldevsCalls, ifiters, found, uaf>>

\* PcapIfT::iter(&self): InterfaceIter { start, next: Some(head) }. The
\* iterator has no lifetime parameter: it does not borrow the PcapIfT.
PcapIfT_iter ==
    \E j \in IfIterIds :
        /\ ifstate = "live"
        /\ ifiters[j].pc = "unborn"
        /\ \A k \in IfIterIds : k < j => ifiters[k].pc # "unborn"
        /\ ifiters' = [ifiters EXCEPT ![j] = [NoIfIter EXCEPT !.pc = "live",
                                                             !.next = HeadOf(devs)]]
        /\ UNCHANGED <<capVars, valVars, ifstate, devs, freealldevsCalls, found, uaf>>

\* InterfaceIter::next as it would be storing the following node on the Ok
\* arm only: after a node that does not convert the pointer stays on it.
IfStep_StaysOnErr(l, nxt) ==
    IF nxt = None THEN [next |-> None, node |-> 0, ret |-> 0]
    ELSE IF nxt = Null THEN [next |-> None, node |-> 0, ret |-> 0]
    ELSE LET n == NodeNext(l, nxt) IN
         IF l[nxt].conv
         THEN [next |-> IF n = Null THEN None ELSE n, node |-> nxt, ret |-> nxt]
         ELSE [next |-> nxt, node |-> nxt, ret |-> 0]

\* One InterfaceIter::next() on list l from pointer state nxt: the new
\* pointer state, the node dereferenced (0: none) and the node whose
\* Interface is returned (0: the call returns None).
IfStep(l, nxt) ==
    IF nxt = None THEN [next |-> None, node |-> 0, ret |-> 0]
    ELSE IF nxt = Null THEN [next |-> None, node |-> 0, ret |-> 0]
    ELSE LET n == NodeNext(l, nxt) IN
         [next |-> IF n = Null THEN None ELSE n,
          node |-> nxt,
          ret  |-> IF l[nxt].conv THEN nxt ELSE 0]

\* What a next() that dereferences released memory can return: None or
\* whatever node the memory still seems to hold. The iterator is "wild" from
\* then on: its pointer is no pointer into a list any more.
GarbageSteps(l, nxt) ==
    [next : {None}, node : {nxt}, ret : 0..Len(l)]

IfIterApply(j, st) ==
    ifiters' = [ifiters EXCEPT
        ![j].next = st.next,
        ![j].visited = IF st.node = 0 THEN @ ELSE Append(@, st.node),
        ![j].out = IF st.ret = 0 THEN @ ELSE Append(@, Interface(devs[st.ret]))]

\* InterfaceIter::next(&mut self).
InterfaceIter_next ==
    \E j \in IfIterIds :
        /\ ifiters[j].pc = "live"
        /\ LET nxt == ifiters[j].next
               derefs == nxt \notin {None, Null} IN
           IF derefs /\ ifstate = "freed"
           THEN /\ \E st \in GarbageSteps(devs, nxt) :
                      ifiters' = [ifiters EXCEPT
                          ![j].pc = "wild",
                          ![j].visited = Append(@, st.node),
                          ![j].out = IF st.ret = 0 THEN @
                                     ELSE Append(@, Interface(devs[st.ret]))]
                /\ uaf' = TRUE
           ELSE /\ IfIterApply(j, IfStep(devs, nxt))
                /\ UNCHANGED uaf
        /\ UNCHANGED <<capVars, valVars, ifstate, devs, freealldevsCalls, found>>

\* An InterfaceIter goes out of scope.
Drop_InterfaceIter ==
    \E j \in IfIterIds :
        /\ ifiters[j].pc \in {"live", "wild"}
        /\ ifiters' = [ifiters EXCEPT ![j] = [NoIfIter EXCEPT !.pc = "dropped"]]
        /\ UNCHANGED <<capVars, valVars, ifstate, devs, freealldevsCalls, found, uaf>>

\* Iterator::collect into a HashSet: next() until it returns None.
RECURSIVE Collect(_, _, _)
Collect(l, nxt, acc) ==
    LET st == IfStep(l, nxt) IN
    IF st.ret = 0 THEN acc
    ELSE Collect(l, st.next, acc \cup {Interface(l[st.ret])})

\* PcapIfT::get_interfaces(&self): self.iter().collect().
GetInterfaces(l) == Collect(l, HeadOf(l), {})

PcapIfT_get_interfaces ==
    /\ ifstate = "live"
    /\ found' = [by |-> "all", arg |-> "-", ret |-> GetInterfaces(devs)]
    /\ UNCHANGED <<capVars, valVars, ifstate, devs, freealldevsCalls, ifiters, uaf>>

\* Interface::has_name and Interface::has_address.
has_name(f, name) == f.name = name

has_address(f, ip) == f.ip # NoIp /\ f.ip = ip

\* PcapIfT::find_interface_with_name(&self, name): the first interface of
\* get_interfaces() that has the name; a HashSet has no fixed order.
FindByName(l, name) ==
    LET hits == {f \in GetInterfaces(l) : has_name(f, name)} IN
    IF hits = {} THEN {{}} ELSE {{f} : f \in hits}

PcapIfT_find_interface_with_name ==
    \E name \in AskNames :
        /\ ifstate = "live"
        /\ \E r \in FindByName(devs, name) :
               found' = [by |-> "name", arg |-> name, ret |-> r]
        /\ UNCHANGED <<capVars, valVars, ifstate, devs, freealldevsCalls, ifiters, uaf>>

\* PcapIfT::find_interface_with_ip(&self, ip): the name of the first
\* interface of get_interfaces() that has the address.
FindByIp(l, ip) ==
    LET hits == {f \in GetInterfaces(l) : has_address(f, ip)} IN
    IF hits = {} THEN {{}} ELSE {{f.name} : f \in hits}

PcapIfT_find_interface_with_ip ==
    \E ip \in Ips :
        /\ ifstate = "live"
        /\ \E r \in FindByIp(devs, ip) :
               found' = [by |-> "ip", arg |-> ip, ret |-> r]
        /\ UNCHANGED <<capVars, valVars, ifstate, devs, freealldevsCalls, ifiters, uaf>>

\* The drop as it would be releasing node by node.
DropPcapIfT_PerNode ==
    freealldevsCalls' = freealldevsCalls + Len(devs)

\* impl Drop for PcapIfT: one pcap_freealldevs on the head of the list.
DropPcapIfT ==
    freealldevsCalls' = freealldevsCalls + 1

Drop_PcapIfT ==
    /\ ifstate = "live"
    /\ ifstate' = "freed"
    /\ DropPcapIfT
    /\ UNCHANGED <<capVars, valVars, devs, ifiters, found, uaf>>

\* ------------------------------------------------------ address list
\* The native address lists a device node can carry.
RECURSIVE AddrListsOf(_)
AddrListsOf(n) ==
    IF n = 0 THEN {<<>>}
    ELSE LET shorter == AddrListsOf(n - 1) IN
         shorter \cup {Append(l, k) : l \in {x \in shorter : Len(x) = n - 1},
                                      k \in AddrKinds}

AddrLists == AddrListsOf(MaxAddrs)

\* try_address_from(node): Some(InterfaceAddress) for a record of a kind an
\* Address holds, None for any other.
Recognized(kind) == kind \in {"Ipv4", "Ipv6", "Mac"}

InterfaceAddress(kind) == [addr |-> [variant |-> kind]]

\* An AddressIter is made over the address list of a device node, as
\* InterfaceIter is over the device list: next: Some(head).
AddressIter_new ==
    \E l \in AddrLists :
        /\ aiter.pc = "unborn"
        /\ addrs' = l
        /\ aiter' = [NoAddrIter EXCEPT !.pc = "live", !.next = HeadOf(l)]
        /\ UNCHANGED <<capVars, devVars, pktVars, tagVars>>

\* AddressIter::next as it would be following InterfaceIter::next: a record
\* that does not convert returns None.
RECURSIVE AddrStep_NoneOnUnknown(_, _, _)
AddrStep_NoneOnUnknown(l, nxt, seen) ==
    IF nxt \in {None, Null} THEN [next |-> None, seen |-> seen, ret |-> 0]
    ELSE LET n == NodeNext(l, nxt)
             nn == IF n = Null THEN None ELSE n IN
         [next |-> nn, seen |-> Append(seen, nxt),
          ret |-> IF Recognized(l[nxt]) THEN nxt ELSE 0]

\* One AddressIter::next() on list l from pointer state nxt: the pointer is
\* advanced past the node, and a node that does not convert is passed over
\* by calling self.next() again. `seen` are the nodes dereferenced on the
\* way, `ret` the node whose InterfaceAddress is returned (0: None).
RECURSIVE AddrStep(_, _, _)
AddrStep(l, nxt, seen) ==
    IF nxt \in {None, Null} THEN [next |-> None, seen |-> seen, ret |-> 0]
    ELSE LET n == NodeNext(l, nxt)
             nn == IF n = Null THEN None ELSE n IN
         IF Recognized(l[nxt])
         THEN [next |-> nn, seen |-> Append(seen, nxt), ret |-> nxt]
         ELSE AddrStep(l, nn, Append(seen, nxt))

AddressIter_next ==
    /\ aiter.pc = "live"
    /\ LET st == AddrStep(addrs, aiter.next, <<>>) IN
         aiter' = [aiter EXCEPT
             !.next = st.next,
             !.visited = @ \o st.seen,
             !.out = IF st.ret = 0 THEN @
                     ELSE Append(@, InterfaceAddress(addrs[st.ret])),
             !.ended = @ \/ st.ret = 0]
    /\ UNCHANGED <<capVars, devVars, addrs, pktVars, tagVars>>

\* An AddressIter goes out of scope.
Drop_AddressIter ==
    /\ aiter.pc = "live"
    /\ aiter' = [aiter EXCEPT !.pc = "dropped"]
    /\ UNCHANGED <<capVars, devVars, addrs, pktVars, tagVars>>

NextAddr ==
    \/ AddressIter_new
    \/ AddressIter_next
    \/ Drop_AddressIter

SpecAddr == Init /\ [][NextAddr]_vars

\* ------------------------------------------------------ packet values
\* The byte strings a packet can hold.
ByteSeqs == UNION {[1..n -> Bytes] : n \in 0..MaxLen}

\* Packet::from_slice(buf): Borrowed, a view of the caller's buffer, which
\* the borrow keeps as it is for as long as the packet lives.
from_slice(b) == [kind |-> "Borrowed", data |-> b]

\* Packet::to_vec as it would be with Vec::with_capacity in the Owned arm:
\* room for the bytes, and none of them.
to_vec_OwnedEmpty(P) ==
    IF P.kind = "Borrowed"
    THEN [k \in 1..Len(P.data) |-> P.data[k]]
    ELSE <<>>

\* Packet::to_vec(&self): slice::to_vec of the view, or Vec::clone of the
\* vector; either is a new vector with the elements one by one.
to_vec(P) ==
    IF P.kind = "Borrowed"
    THEN [k \in 1..Len(P.data) |-> P.data[k]]
    ELSE [k \in 1..Len(P.data) |-> P.data[k]]

\* impl ToOwned for Packet: Packet::Owned(self.to_vec()).
to_owned(P) == [kind |-> "Owned", data |-> to_vec(P)]

\* The caller makes a Packet over a buffer of its own.
Packet_from_slice ==
    \E b \in ByteSeqs :
        /\ pkt = NoPacket
        /\ pkt' = from_slice(b)
        /\ UNCHANGED <<capVars, devVars, addrVars, copy, tagVars>>

\* The caller makes a Packet::Owned of a vector of its own.
Packet_Owned ==
    \E b \in ByteSeqs :
        /\ pkt = NoPacket
        /\ pkt' = [kind |-> "Owned", data |-> b]
        /\ UNCHANGED <<capVars, devVars, addrVars, copy, tagVars>>

\* to_owned(&self) on the packet: self is borrowed, the copy is returned.
ToOwned_to_owned ==
    /\ pkt # NoPacket
    /\ copy' = to_owned(pkt)
    /\ UNCHANGED <<capVars, devVars, addrVars, pkt, tagVars>>

\* The packet and its copy go out of scope.
Drop_Packets ==
    /\ pkt # NoPacket
    /\ pkt' = NoPacket
    /\ copy' = NoPacket
    /\ UNCHANGED <<capVars, devVars, addrVars, tagVars>>

NextPacket ==
    \/ Packet_from_slice
    \/ Packet_Owned
    \/ ToOwned_to_owned
    \/ Drop_Packets

SpecPacket == Init /\ [][NextPacket]_vars

\* ----------------------------------------------------- address values
\* std::net::IpAddr: V4(Ipv4Addr) or V6(Ipv6Addr).
IpAddr_V4(ip) == [v |-> "V4", ip |-> ip]
IpAddr_V6(ip) == [v |-> "V6", ip |-> ip]
IpAddrs == {IpAddr_V4(ip) : ip \in Ipv4Addrs} \cup {IpAddr_V6(ip) : ip \in Ipv6Addrs}

\* impl From<Ipv4Addr>, From<Ipv6Addr>, From<IpAddr>, From<MacAddr> (and
\* From<[u8; 6]>, which goes through MacAddr) for Address.
From_Ipv4Addr(ip) == [variant |-> "Ipv4", val |-> ip]
From_Ipv6Addr(ip) == [variant |-> "Ipv6", val |-> ip]
From_IpAddr(ip) ==
    IF ip.v = "V4" THEN [variant |-> "Ipv4", val |-> ip.ip]
    ELSE [variant |-> "Ipv6", val |-> ip.ip]
From_MacAddr(mac) == [variant |-> "Mac", val |-> mac]

\* Option and Result: Some(x) and Ok(x) are `some` = {x}, Err(e) is `err` = {e}.
Some(x) == [some |-> {x}, err |-> {}]
Nothing == [some |-> {}, err |-> {}]
Ok(x) == [some |-> {x}, err |-> {}]
Err(e) == [some |-> {}, err |-> {e}]

\* Address::as_ipv4, as_ipv6, as_ip, as_mac.
as_ipv4(A) == IF A.variant = "Ipv4" THEN Some(A.val) ELSE Nothing

as_ipv6(A) == IF A.variant = "Ipv6" THEN Some(A.val) ELSE Nothing

\* as_ip as it would be with the Ipv6 arm left out.
as_ip_NoIpv6(A) ==
    CASE A.variant = "Ipv4" -> Some(IpAddr_V4(A.val))
      [] OTHER -> Nothing

as_ip(A) ==
    CASE A.variant = "Ipv4" -> Some(IpAddr_V4(A.val))
      [] A.variant = "Ipv6" -> Some(IpAddr_V6(A.val))
      [] OTHER -> Nothing

as_mac(A) == IF A.variant = "Mac" THEN Some(A.val) ELSE Nothing

\* impl TryFrom<Address> for Ipv4Addr, Ipv6Addr, IpAddr and MacAddr.
TryFrom_Ipv4Addr(A) ==
    IF A.variant = "Ipv4" THEN Ok(A.val) ELSE Err("InvalidAddress")

TryFrom_Ipv6Addr(A) ==
    IF A.variant = "Ipv6" THEN Ok(A.val) ELSE Err("InvalidAddress")

TryFrom_IpAddr(A) ==
    CASE A.variant = "Ipv4" -> Ok(IpAddr_V4(A.val))
      [] A.variant = "Ipv6" -> Ok(IpAddr_V6(A.val))
      [] OTHER -> Err("InvalidAddress")

TryFrom_MacAddr(A) ==
    IF A.variant = "Mac" THEN Ok(A.val) ELSE Err("InvalidAddress")

\* impl TryFrom<&Address> for Ipv4Addr, Ipv6Addr and IpAddr.
TryFromRef_Ipv4Addr(A) ==
    IF A.variant = "Ipv4" THEN Ok(A.val) ELSE Err("InvalidAddress")

TryFromRef_Ipv6Addr(A) ==
    IF A.variant = "Ipv6" THEN Ok(A.val) ELSE Err("InvalidAddress")

TryFromRef_IpAddr(A) ==
    CASE A.variant = "Ipv4" -> Ok(IpAddr_V4(A.val))
      [] A.variant = "Ipv6" -> Ok(IpAddr_V6(A.val))
      [] OTHER -> Err("InvalidAddress")

\* The result r of extraction op from address A.
Got(op, A, r) == [op |-> op, of |-> A, some |-> r.some, err |-> r.err]

\* The caller makes an Address with one of the From conversions.
Address_from ==
    /\ addr = NoAddress
    /\ \/ \E ip \in Ipv4Addrs : addr' = From_Ipv4Addr(ip)
       \/ \E ip \in Ipv6Addrs : addr' = From_Ipv6Addr(ip)
       \/ \E ip \in IpAddrs : addr' = From_IpAddr(ip)
       \/ \E mac \in MacAddrs : addr' = From_MacAddr(mac)
    /\ UNCHANGED <<capVars, devVars, addrVars, pktVars, got>>

\* An as_* extraction on &self.
Address_as ==
    /\ addr # NoAddress
    /\ \/ got' = Got("as_ipv4", addr, as_ipv4(addr))
       \/ got' = Got("as_ipv6", addr, as_ipv6(addr))
       \/ got' = Got("as_ip", addr, as_ip(addr))
       \/ got' = Got("as_mac", addr, as_mac(addr))
    /\ UNCHANGED <<capVars, devVars, addrVars, pktVars, addr>>

\* A try_from on the Address by value: the Address is moved into the call.
Address_try_from ==
    /\ addr # NoAddress
    /\ \/ got' = Got("Ipv4Addr::try_from", addr, TryFrom_Ipv4Addr(addr))
       \/ got' = Got("Ipv6Addr::try_from", addr, TryFrom_Ipv6Addr(addr))
       \/ got' = Got("IpAddr::try_from", addr, TryFrom_IpAddr(addr))
       \/ got' = Got("MacAddr::try_from", addr, TryFrom_MacAddr(addr))
    /\ addr' = NoAddress
    /\ UNCHANGED <<capVars, devVars, addrVars, pktVars>>

\* A try_from on a reference to the Address.
Address_try_from_ref ==
    /\ addr # NoAddress
    /\ \/ got' = Got("Ipv4Addr::try_from", addr, TryFromRef_Ipv4Addr(addr))
       \/ got' = Got("Ipv6Addr::try_from", addr, TryFromRef_Ipv6Addr(addr))
       \/ got' = Got("IpAddr::try_from", addr, TryFromRef_IpAddr(addr))
    /\ UNCHANGED <<capVars, devVars, addrVars, pktVars, addr>>

\* The Address goes out of scope.
Drop_Address ==
    /\ addr # NoAddress
    /\ addr' = NoAddress
    /\ UNCHANGED <<capVars, devVars, addrVars, pktVars, got>>

NextAddress ==
    \/ Address_from
    \/ Address_as
    \/ Address_try_from
    \/ Address_try_from_ref
    \/ Drop_Address

SpecAddress == Init /\ [][NextAddress]_vars

NextIf ==
    \/ PcapIfT_new
    \/ PcapIfT_iter
    \/ InterfaceIter_next
    \/ Drop_InterfaceIter
    \/ PcapIfT_get_interfaces
    \/ PcapIfT_find_interface_with_name
    \/ PcapIfT_find_interface_with_ip
    \/ Drop_PcapIfT

SpecIf == Init /\ [][NextIf]_vars

\* ------------------------------------------------------ specification
Next ==
    \/ Pcap_new
    \/ Pcap_builder
    \/ set_buffer_size
    \/ set_promiscuous
    \/ set_immediate
    \/ set_snaplen
    \/ PcapBuilder_activate
    \/ Pcap_activate
    \/ Pcap_inject
    \/ Pcap_stats
    \/ Pcap_set_filter
    \/ PcapFilter_compile
    \/ Install_PcapFilter
    \/ Drop_PcapFilter
    \/ Pcap_capture
    \/ PcapIter_next
    \/ pcap_next_ex
    \/ Drop_PcapIter
    \/ Packet_to_owned
    \/ Drop_Packet
    \/ Drop_Pcap
    \/ Drop_PcapBuilder

Spec == Init /\ [][Next]_vars

\* The handle lifecycle with the session calls that are one native call, the
\* filters and the making of iterators: everything but polling. The actions
\* left out change and read pollVars only.
NextLife ==
    \/ Pcap_new
    \/ Pcap_builder
    \/ set_buffer_size
    \/ set_promiscuous
    \/ set_immediate
    \/ set_snaplen
    \/ PcapBuilder_activate
    \/ Pcap_activate
    \/ Pcap_inject
    \/ Pcap_stats
    \/ Pcap_set_filter
    \/ PcapFilter_compile
    \/ Install_PcapFilter
    \/ Drop_PcapFilter
    \/ Pcap_capture
    \/ Drop_PcapIter
    \/ Drop_Pcap
    \/ Drop_PcapBuilder

SpecLife == Init /\ [][NextLife]_vars

\* The capture path: a handle is made and activated (or not), iterated,
\* its packets held, copied and dropped, and closed. The actions left out
\* (setters, inject, stats, filters) change lastCall, cfgFailed and filtVars
\* and no guard here reads what they change, but for a failed setter, which
\* closes a builder as Drop_PcapBuilder does.
NextCapture ==
    \/ Pcap_new
    \/ Pcap_builder
    \/ PcapBuilder_activate
    \/ Pcap_activate
    \/ Pcap_capture
    \/ PcapIter_next
    \/ pcap_next_ex
    \/ Drop_PcapIter
    \/ Packet_to_owned
    \/ Drop_Packet
    \/ Drop_Pcap
    \/ Drop_PcapBuilder

SpecCapture == Init /\ [][NextCapture]_vars

\* The collaborator answers the poll of iterator i with something other
\* than a timeout.
Answered(i) ==
    \E ans \in PollAnswers : ans.kind # "Timeout" /\ Poll(i, ans)

\* Polling alone, on a handle from either constructor, under the assumption
\* that the collaborator does not answer timeouts for ever.
NextPoll ==
    \/ Pcap_new
    \/ Pcap_builder
    \/ PcapBuilder_activate
    \/ Pcap_capture
    \/ PcapIter_next
    \/ pcap_next_ex
    \/ Drop_PcapIter
    \/ Drop_Packet
    \/ Drop_Pcap
    \/ Drop_PcapBuilder

SpecPollFair ==
    /\ Init /\ [][NextPoll]_vars
    /\ \A i \in IterIds : WF_vars(Answered(i))

\* The session calls (poll, inject, filter install) on a handle from either
\* constructor, activated or not. Left out: the setters and stats, the
\* PcapFilter values of the caller and the copying of packets.
NextSession ==
    \/ Pcap_new
    \/ Pcap_builder
    \/ PcapBuilder_activate
    \/ Pcap_activate
    \/ Pcap_inject
    \/ Pcap_set_filter
    \/ Pcap_capture
    \/ PcapIter_next
    \/ pcap_next_ex
    \/ Drop_PcapIter
    \/ Drop_Packet
    \/ Drop_Pcap
    \/ Drop_PcapBuilder

SpecSession == Init /\ [][NextSession]_vars

TypeOK ==
    /\ hstate \in [Handles -> {"unopened", "builder", "pcap", "closed"}]
    /\ \A h \in Handles : closeCalls[h] \in 0..2 /\ polls[h] \in 0..MaxPolls
    /\ Cardinality(BorrowedHeld) <= MaxHeld

\* ================================================================ claims

\* C1: pcap_close is invoked exactly once on the native resource of every
\* handle that has gone out of scope, whatever setters, activations and
\* session calls came before and whether they failed, and never on a
\* resource whose handle is still held.
C1_CloseExactlyOnce ==
    \A h \in Handles :
        closeCalls[h] = IF hstate[h] = "closed" THEN 1 ELSE 0

\* A builder was consumed by a failing setter or activate and is closed once.
C1_Witness ==
    \E h \in Handles :
        hstate[h] = "closed" /\ cfgFailed[h] = "builder" /\ closeCalls[h] = 1

SessionOps == {"pcap_next_ex", "pcap_inject", "pcap_compile", "pcap_setfilter"}

\* C2: every poll, inject and filter call on a handle comes after
\* a successful activate of that handle.
C2_NoSessionCallBeforeActivate ==
    lastCall.op \in SessionOps => activated[lastCall.h]

\* C3: no Borrowed packet the consumer holds is a view of a buffer that a
\* later poll on the same session has overwritten.
C3_NoBorrowedPastNextPoll ==
    \A p \in held : p.kind = "Borrowed" => p.gen = bufgen[p.h]

\* C4: pcap_close is issued on a handle only when no PcapIter made from it is
\* alive (so none is in a poll), and every poll is made on a handle that is
\* open before and after it.
C4_CloseAfterBorrows ==
    [][\A h \in Handles :
          /\ closeCalls'[h] # closeCalls[h]
                => /\ NoCallInFlight
                   /\ \A i \in IterIds : ~(LiveIter(i) /\ iters[i].h = h)
          /\ polls'[h] # polls[h]
                => hstate[h] = "pcap" /\ hstate'[h] = "pcap"]_vars

\* A handle that was polled has been closed.
C4_Witness ==
    \E h \in Handles : hstate[h] = "closed" /\ polls[h] > 0

\* The poll an iterator in next() has just made on its handle.
Polled(i) ==
    /\ iters[i].pc = "polling"
    /\ polls'[iters[i].h] = polls[iters[i].h] + 1

\* C5: inside one next(), a timeout answer is not seen by the consumer (the
\* call goes on, nothing is yielded or ended), and the packet answer that
\* follows any number of them ends the call with exactly that packet yielded.
C5_TimeoutTransparency ==
    [][\A i \in IterIds : Polled(i) =>
          /\ lastCall'.res = "Timeout"
                => /\ iters'[i].pc = "polling"
                   /\ iters'[i].yielded = iters[i].yielded
                   /\ iters'[i].ended = iters[i].ended
                   /\ held' = held
          /\ lastCall'.res = "Ok"
                => /\ iters'[i].pc = "idle"
                   /\ iters'[i].yielded
                        = Append(iters[i].yielded, buf'[iters[i].h])
                   /\ iters'[i].ended = iters[i].ended]_vars

\* A next() has returned its first packet after a timeout.
C5_Witness ==
    \E i \in IterIds :
        /\ iters[i].pc = "idle" /\ iters[i].npolls >= 2
        /\ lastCall.op = "pcap_next_ex" /\ lastCall.res = "Ok"
        /\ Len(iters[i].yielded) = 1 /\ ~iters[i].ended

\* C6 as stated: after a next() has returned None no later next() of the
\* same iterator yields a packet.
C6_NoPacketAfterNone ==
    \A i \in IterIds : ~iters[i].resumed

\* C6 amended: a poll failure other than timeout makes that next() return
\* None with nothing yielded; the iterator keeps no state of it, and a packet
\* answered to a later next() is yielded.
C6_FailureEndsThatCall ==
    [][\A i \in IterIds : Polled(i) =>
          /\ lastCall'.res = "Err"
                => /\ iters'[i].pc = "idle"
                   /\ iters'[i].ended
                   /\ iters'[i].yielded = iters[i].yielded
                   /\ held' = held
          /\ (lastCall'.res = "Ok" /\ iters[i].ended)
                => /\ iters'[i].resumed
                   /\ Len(iters'[i].yielded) = Len(iters[i].yielded) + 1]_vars

\* A next() has just returned None on a failed poll that followed a timeout.
C6_Witness ==
    \E i \in IterIds :
        /\ iters[i].pc = "idle" /\ iters[i].ended /\ iters[i].npolls >= 2
        /\ lastCall.op = "pcap_next_ex" /\ lastCall.res = "Err"

\* C7: the packets an iterator has yielded are the packets the collaborator
\* has delivered to it, in the same order, none dropped, doubled or moved.
C7_YieldedInDeliveryOrder ==
    \A i \in IterIds : iters[i].yielded = iters[i].delivered

\* An iterator has yielded two different packets.
C7_Witness ==
    \E i \in IterIds :
        /\ Len(iters[i].yielded) >= 2
        /\ iters[i].yielded[1] # iters[i].yielded[2]

\* C8: every compiled program whose PcapFilter has gone out of scope has been
\* freed exactly once, installed or not; no program still held has been
\* freed; and no pcap_freecode is issued for a compilation that failed.
C8_FilterFreedOnce ==
    /\ \A f \in FilterIds :
          ffrees[f] = IF fstate[f] = "dropped" THEN 1 ELSE 0
    /\ freecodeCalls = Cardinality({f \in FilterIds : fstate[f] = "dropped"})

\* A program whose install failed has been freed.
C8_Witness ==
    \E f \in FilterIds :
        fstate[f] = "dropped" /\ finst[f] = "failed" /\ ffrees[f] = 1

\* C9: the native device list is released by exactly one pcap_freealldevs
\* once its PcapIfT has gone out of scope, and not before, whatever was
\* iterated, collected or searched.
C9_ListFreedOnce ==
    freealldevsCalls = IF ifstate = "freed" THEN 1 ELSE 0

\* A list with a node that does not convert was iterated, collected and
\* searched, and has been released.
C9_Witness ==
    /\ ifstate = "freed"
    /\ \E k \in 1..Len(devs) : ~devs[k].conv
    /\ \E j \in IfIterIds : Len(ifiters[j].visited) = Len(devs)
    /\ found.by \in {"name", "ip"}

\* C10: a handle on which a setter or an activate has returned an
\* error is gone.
C10_FailedHandleConsumed ==
    \A h \in Handles : cfgFailed[h] # "no" => hstate[h] = "closed"

\* A step in which a pcap_compile on resource h has failed.
FailedCompile(h) ==
    \/ compileErr'[h] # compileErr[h]
    \/ lastCall' = Call("pcap_compile", h, "Err") /\ lastCall' # lastCall

\* A step in which Pcap::set_filter on resource h has compiled program f.
SetFilterCompiled(h, f) ==
    /\ fstate[f] = "unused" /\ fstate'[f] = "dropped"
    /\ lastCall'.h = h

\* C11: a compilation that fails issues no install call and leaves the
\* installed program, the activation state and the handle as they were; and
\* a set_filter that compiles on a handle where a compilation has failed
\* issues its install, which takes effect as the collaborator answers.
C11_CompileErrorRecoverable ==
    [][\A h \in Handles :
          /\ FailedCompile(h)
                => /\ lastCall' = Call("pcap_compile", h, "Err")
                   /\ installed' = installed /\ finst' = finst
                   /\ fstate' = fstate /\ ffrees' = ffrees
                   /\ activated' = activated
                   /\ hstate'[h] = "pcap" /\ closeCalls' = closeCalls
          /\ \A f \in FilterIds :
                (compileErr[h] /\ SetFilterCompiled(h, f))
                   => /\ lastCall'.op = "pcap_setfilter"
                      /\ finst'[f] = IF lastCall'.res = "Ok" THEN "ok"
                                     ELSE "failed"
                      /\ installed'[h] = IF lastCall'.res = "Ok" THEN f
                                         ELSE installed[h]
                      /\ hstate'[h] = "pcap"
                      /\ activated' = activated]_vars

\* On an activated handle where a compilation has failed, a set_filter has
\* compiled and installed its program.
C11_Witness ==
    \E h \in Handles :
        /\ compileErr[h] /\ activated[h]
        /\ lastCall = Call("pcap_setfilter", h, "Ok")
        /\ installed[h] # 0 /\ fstate[installed[h]] = "dropped"

\* The interfaces of the nodes of list l that try_interface_from converts.
Convertible(l) == {Interface(l[k]) : k \in {n \in 1..Len(l) : l[n].conv}}

\* C12: get_interfaces() returns the Interface of every node of the list
\* that converts, and nothing else, wherever the nodes that do not convert
\* stand in the list.
C12_EveryConvertingNodeListed ==
    found.by = "all" => found.ret = Convertible(devs)

\* The InterfaceAddress values of the records of l that convert, in order.
RECURSIVE Converted(_)
Converted(l) ==
    IF l = <<>> THEN <<>>
    ELSE (IF Recognized(Head(l)) THEN <<InterfaceAddress(Head(l))>> ELSE <<>>)
         \o Converted(Tail(l))

\* C13: an AddressIter has dereferenced the nodes of its list from the head
\* on, each once and in order; what it has yielded are the records among them
\* that convert, in list order, none left out for standing after a record
\* that does not; it never stops on a record that does not convert; and it
\* has returned None only with every node visited.
C13_UnknownAddressesSkipped ==
    aiter.pc = "live" =>
        /\ aiter.visited = [k \in 1..Len(aiter.visited) |-> k]
        /\ Len(aiter.visited) <= Len(addrs)
        /\ aiter.out = Converted(SubSeq(addrs, 1, Len(aiter.visited)))
        /\ (~aiter.ended /\ aiter.visited # <<>>)
              => Recognized(addrs[Len(aiter.visited)])
        /\ aiter.ended => Len(aiter.visited) = Len(addrs)

\* A list with two records that do not convert at its head, a record that
\* converts and one that does not at its tail has been gone through.
C13_Witness ==
    /\ aiter.pc = "live" /\ aiter.ended
    /\ Len(addrs) >= 4
    /\ ~Recognized(addrs[1]) /\ ~Recognized(addrs[2])
    /\ ~Recognized(addrs[Len(addrs)])
    /\ aiter.out # <<>>

\* The names the nodes of list l carry: a node try_interface_from does not
\* convert is a node whose name cannot be read.
NamesIn(l) == {l[k].name : k \in {n \in 1..Len(l) : l[n].conv}}

\* C14: find_interface_with_name(name) returns an Interface exactly when a
\* node of the list carries the name, and the Interface returned has the
\* name; a name no node carries finds nothing.
C14_FoundIffNamed ==
    found.by = "name" =>
        /\ found.ret # {} <=> found.arg \in NamesIn(devs)
        /\ \A f \in found.ret : f.name = found.arg

\* C15: what to_owned() of a packet returns is the Owned variant, its
\* to_vec() is the to_vec() of the packet, which are the packet's bytes in
\* their order, and the packet is as it was.
C15_OwnedRoundTrip ==
    [][(copy' # copy /\ copy' # NoPacket)
          => /\ copy'.kind = "Owned"
             /\ to_vec(copy') = to_vec(pkt)
             /\ to_vec(pkt) = pkt.data
             /\ Len(to_vec(copy')) = Len(pkt.data)
             /\ pkt' = pkt]_vars

\* A Borrowed packet of two different bytes has been copied.
C15_Witness ==
    /\ pkt.kind = "Borrowed" /\ copy.kind = "Owned"
    /\ Len(pkt.data) >= 2 /\ pkt.data[1] # pkt.data[2]
    /\ copy.data = pkt.data

\* The variants an extraction takes, and the extractions that are fallible
\* conversions and those that give an IpAddr.
Accepts(op) ==
    CASE op \in {"as_ipv4", "Ipv4Addr::try_from"} -> {"Ipv4"}
      [] op \in {"as_ipv6", "Ipv6Addr::try_from"} -> {"Ipv6"}
      [] op \in {"as_mac", "MacAddr::try_from"} -> {"Mac"}
      [] op \in {"as_ip", "IpAddr::try_from"} -> {"Ipv4", "Ipv6"}
      [] OTHER -> {}

IsTryFrom(op) ==
    op \in {"Ipv4Addr::try_from", "Ipv6Addr::try_from", "IpAddr::try_from",
            "MacAddr::try_from"}

GivesIpAddr(op) == op \in {"as_ip", "IpAddr::try_from"}

\* C16: an extraction from an Address succeeds exactly when the Address is
\* of a variant the extraction takes, what it gives is the value the
\* Address wraps, and a conversion that does not succeed gives the
\* invalid-address error.
C16_AddressTagging ==
    got.op # "-" =>
        /\ got.some # {} <=> got.of.variant \in Accepts(got.op)
        /\ \A x \in got.some :
              IF GivesIpAddr(got.op)
              THEN /\ x.ip = got.of.val
                   /\ x.v = "V4" <=> got.of.variant = "Ipv4"
                   /\ x.v = "V6" <=> got.of.variant = "Ipv6"
              ELSE x = got.of.val
        /\ Cardinality(got.some) <= 1
        /\ got.err = IF IsTryFrom(got.op) /\ got.some = {}
                     THEN {"InvalidAddress"} ELSE {}

\* as_ip has given the IpAddr of an Ipv6 address.
C16_Witness ==
    /\ got.op = "as_ip" /\ got.of.variant = "Ipv6"
    /\ got.some = {IpAddr_V6(got.of.val)}

\* C17 as stated: a next() has made one poll.
C17_OnePollPerStep ==
    \A i \in IterIds : iters[i].npolls <= 1

\* C17 amended: a next() makes one poll and one more for every timeout it is
\* answered: it has made as many polls as it has had timeouts while it is in
\* its loop, and one more than that when it has returned.
C17_OnePollPerAnswer ==
    \A i \in IterIds :
        /\ iters[i].pc = "polling" => iters[i].npolls = iters[i].ntimeouts
        /\ (iters[i].pc = "idle" /\ iters[i].npolls > 0)
              => iters[i].npolls = iters[i].ntimeouts + 1
        /\ (iters[i].pc = "idle" /\ (iters[i].ended \/ iters[i].yielded # <<>>))
              => iters[i].npolls > 0

\* A next() that was answered a timeout has returned after its second poll.
C17_Witness ==
    \E i \in IterIds :
        /\ iters[i].pc = "idle"
        /\ iters[i].ntimeouts = 1 /\ iters[i].npolls = 2

\* C18: under the assumption that the collaborator comes to answer a poll
\* with something other than a timeout, every next() returns; and it returns
\* on such an answer only, however many timeouts come before it.
C18_NextReturns ==
    /\ \A i \in IterIds : (iters[i].pc = "polling") ~> (iters[i].pc = "idle")
    /\ [][\A i \in IterIds :
             (iters[i].pc = "polling" /\ iters'[i].pc # "polling")
                => /\ Polled(i)
                   /\ lastCall'.res \in {"Ok", "Err"}
                   /\ iters'[i].pc = "idle"]_vars

\* A next() is in its loop after a timeout.
C18_Witness ==
    \E i \in IterIds :
        /\ iters[i].pc = "polling"
        /\ iters[i].ntimeouts >= 1
        /\ lastCall = Call("pcap_next_ex", iters[i].h, "Timeout")

\* C19: an InterfaceIter over a list has dereferenced the nodes of the list
\* from the head on, each once and in list order, and never the null
\* pointer; its pointer stands on the node after the last one visited, or is
\* None once there is none; and with every node visited a next() touches the
\* list no more and yields nothing.
C19_ForwardOnly ==
    /\ [](\A j \in IfIterIds : ifiters[j].pc = "live" =>
            LET it == ifiters[j] IN
            /\ it.visited = [k \in 1..Len(it.visited) |-> k]
            /\ Len(it.visited) <= Len(devs)
            /\ it.next \notin {None, Null} => it.next = Len(it.visited) + 1
            /\ it.next = Null => (devs = <<>> /\ it.visited = <<>>)
            /\ (it.next = None /\ devs # <<>>) => Len(it.visited) = Len(devs))
    /\ [][\A j \in IfIterIds :
             (/\ ifiters[j].pc = "live" /\ ifiters'[j].pc = "live"
              /\ Len(ifiters[j].visited) = Len(devs))
                => /\ ifiters'[j].visited = ifiters[j].visited
                   /\ ifiters'[j].out = ifiters[j].out
                   /\ ifiters'[j].next \in {ifiters[j].next, None}]_vars

\* An InterfaceIter has gone through a list of two nodes, one of which did
\* not convert, and stands behind the last.
C19_Witness ==
    /\ ifstate = "live"
    /\ \E j \in IfIterIds :
          /\ ifiters[j].pc = "live"
          /\ ifiters[j].visited = <<1, 2>>
          /\ ifiters[j].next = None
          /\ Len(ifiters[j].out) = 1

\* C20: no node of a device list is read after the list has been released:
\* every InterfaceIter::next() that dereferences a node is taken while the
\* PcapIfT that made the iterator has not been dropped.
C20_NoReadAfterFree ==
    [][\A j \in IfIterIds :
          ifiters'[j].visited # ifiters[j].visited => ifstate = "live"]_vars

\* The native calls of the PcapBuilder setters.
SetterOps ==
    {"pcap_set_buffer_size", "pcap_set_promisc", "pcap_set_immediate_mode",
     "pcap_set_snaplen"}

\* A step in which a pcap_activate on resource h has returned success.
ActivatedOk(h) ==
    /\ lastCall' = Call("pcap_activate", h, "Ok")
    /\ lastCall' # lastCall \/ activated'[h] # activated[h]

====
